---- MODULE Spec2Model ----
(***************************************************************************)
(* markdownlayer: the generation pass (generate, generateInner,            *)
(* generateDocuments) and the watch loop of the content pipeline.          *)
(*                                                                         *)
(* Paths are sequences of one-character strings, so that node:path's join  *)
(* and relative and the naming helpers are computed, not assumed.          *)
(***************************************************************************)
EXTENDS Integers, Sequences, FiniteSets, TLC

\* ------------------------------------------------------------------ bounds
\* Number of saves (of a content file or the configuration file) and other
\* file-system events the environment makes.
MaxEdits == 2
\* Number of async call chains (the initial run, watcher handlers) alive at once.
MaxTasks == 2
\* The longest relative path, without its extension, of a file whose artifact is named.
MaxLen == 4

\* ------------------------------------------------------------- path helpers
Slash == "/"
Digits == {"0", "1", "2", "3", "4", "5", "6", "7", "8", "9"}

\* The segments of a path: the pieces between "/" characters.
Split(s) ==
  LET F[i \in 0..Len(s)] ==
        IF i = 0 THEN << <<>> >>
        ELSE LET prev == F[i - 1] IN
             IF s[i] = Slash THEN Append(prev, <<>>)
             ELSE [prev EXCEPT ![Len(prev)] = Append(@, s[i])]
  IN F[Len(s)]

\* Segments with "" and "." dropped and ".." resolved against the segment before it.
Resolve(segs) ==
  LET F[i \in 0..Len(segs)] ==
        IF i = 0 THEN <<>>
        ELSE LET prev == F[i - 1]
                 seg == segs[i] IN
             IF seg = <<>> \/ seg = <<".">> THEN prev
             ELSE IF seg = <<".", ".">> /\ Len(prev) > 0 /\ prev[Len(prev)] # <<".", ".">>
                  THEN SubSeq(prev, 1, Len(prev) - 1)
                  ELSE Append(prev, seg)
  IN F[Len(segs)]

\* Segments joined by "/".
Unsplit(segs) ==
  LET F[i \in 0..Len(segs)] ==
        IF i = 0 THEN <<>>
        ELSE IF i = 1 THEN segs[1]
        ELSE F[i - 1] \o <<Slash>> \o segs[i]
  IN F[Len(segs)]

IsAbsolute(p) == Len(p) > 0 /\ p[1] = Slash

\* node:path normalize
normalize(p) ==
  LET body == Unsplit(Resolve(Split(p))) IN
  IF IsAbsolute(p) THEN <<Slash>> \o body
  ELSE IF body = <<>> THEN <<".">> ELSE body

\* node:path join of two pieces
join(a, b) == normalize(a \o <<Slash>> \o b)

\* Length of the longest common prefix of two segment lists: the number of lengths
\* up to which they agree.
CommonLen(x, y) ==
  LET n == IF Len(x) < Len(y) THEN Len(x) ELSE Len(y)
  IN Cardinality({k \in 1..n : \A i \in 1..k : x[i] = y[i]})

\* node:path relative, for absolute paths
relative(from, to) ==
  LET f == Resolve(Split(from))
      t == Resolve(Split(to))
      k == CommonLen(f, t)
      ups == [i \in 1..(Len(f) - k) |-> <<".", ".">>]
  IN Unsplit(ups \o SubSeq(t, k + 1, Len(t)))

\* Every occurrence of "/" replaced by "__".
ReplaceSlashes(s) ==
  LET F[i \in 0..Len(s)] ==
        IF i = 0 THEN <<>>
        ELSE F[i - 1] \o (IF s[i] = Slash THEN <<"_", "_">> ELSE <<s[i]>>)
  IN F[Len(s)]

leftPadWithUnderscoreIfStartsWithNumber(str) ==
  IF Len(str) > 0 /\ str[1] \in Digits THEN <<"_">> \o str ELSE str

idToFileName(id) == ReplaceSlashes(leftPadWithUnderscoreIfStartsWithNumber(id))

\* ------------------------------------------------------- JavaScript objects
\* An object is the sequence of its <<key, value>> pairs in property order:
\* array-index keys first, then the other keys in insertion order.
IsArrayIndex(k) ==
  /\ Len(k) > 0
  /\ \A i \in 1..Len(k) : k[i] \in Digits
  /\ (Len(k) > 1 => k[1] # "0")

ObjKeys(o) == [i \in 1..Len(o) |-> o[i][1]]
ObjValues(o) == [i \in 1..Len(o) |-> o[i][2]]
ObjHas(o, k) == \E i \in 1..Len(o) : o[i][1] = k

\* Whether array-index key a sorts before array-index key b.
IndexBefore(a, b) ==
  \/ Len(a) < Len(b)
  \/ /\ Len(a) = Len(b)
     /\ \E i \in 1..Len(a) :
          /\ \A j \in 1..(i - 1) : a[j] = b[j]
          /\ \E da, db \in 0..9 : ToString(da) = a[i] /\ ToString(db) = b[i] /\ da < db

\* A property set that puts a new key first.
ObjSetFront(o, k, v) ==
  IF ObjHas(o, k)
  THEN [i \in 1..Len(o) |-> IF o[i][1] = k THEN <<k, v>> ELSE o[i]]
  ELSE << <<k, v>> >> \o o

\* o[k] = v
ObjSet(o, k, v) ==
  IF ObjHas(o, k)
  THEN [i \in 1..Len(o) |-> IF o[i][1] = k THEN <<k, v>> ELSE o[i]]
  ELSE IF IsArrayIndex(k)
       THEN LET before == SelectSeq(o, LAMBDA e : IsArrayIndex(e[1]) /\ IndexBefore(e[1], k))
                after == SelectSeq(o, LAMBDA e : ~(IsArrayIndex(e[1]) /\ IndexBefore(e[1], k)))
            IN before \o << <<k, v>> >> \o after
       ELSE Append(o, <<k, v>>)

\* ------------------------------------------------------------ the project
\* "/c": the content directory; "/o": the directory of generated output.
contentDirPath == <<"/", "c">>
OutputGenerated == <<"/", "o">>
\* "/m.ts": the configuration file, the one configuration dependency.
ConfigFile == <<"/", "m", ".", "t", "s">>
configImports == <<ConfigFile>>

\* Document types "d/a" and "d": the directory of the first lies inside the second's.
TypeApi == <<"d", "/", "a">>
TypeDocs == <<"d">>

\* Content files "/c/d/2.md", "/c/d/i.md" and "/c/d/a/r.md".
FileTwo == <<"/", "c", "/", "d", "/", "2", ".", "m", "d">>
FileIntro == <<"/", "c", "/", "d", "/", "i", ".", "m", "d">>
FileRef == <<"/", "c", "/", "d", "/", "a", "/", "r", ".", "m", "d">>
Files == {FileTwo, FileIntro, FileRef}
\* The order in which a directory walk meets the files.
WalkOrder == <<FileTwo, FileIntro, FileRef>>

NoPatternsSet == [set |-> FALSE, globs |-> <<>>]
DefaultDefinitions ==
  << [type |-> TypeApi, schema |-> FALSE], [type |-> TypeDocs, schema |-> TRUE] >>
\* What getConfig may resolve the configuration file to.
ConfigChoices ==
  { [definitions |-> DefaultDefinitions, patterns |-> NoPatternsSet],
    [definitions |-> DefaultDefinitions, patterns |-> [set |-> TRUE, globs |-> <<>>]],
    [definitions |-> <<>>, patterns |-> NoPatternsSet] }
NoConfig == [definitions |-> <<>>, patterns |-> NoPatternsSet]

Modes == {"development", "production"}

\* const { patterns = '**/*.{md,mdoc,mdx}' } = config
PatternsOf(config) ==
  IF config.patterns.set THEN config.patterns.globs ELSE <<"**/*.{md,mdoc,mdx}">>

\* node:path extname: from the last "." of the last segment, "" when there is none.
extname(p) ==
  LET segs == Split(p)
      base == segs[Len(segs)]
      dots == {i \in 2..Len(base) : base[i] = "."}
  IN IF dots = {} THEN <<>>
     ELSE SubSeq(base, CHOOSE i \in dots : \A j \in dots : j <= i, Len(base))

IsUnder(dir, file) ==
  /\ Len(file) > Len(dir) + 1
  /\ SubSeq(file, 1, Len(dir) + 1) = dir \o <<Slash>>

\* globby(patterns, { cwd: definitionDir, onlyFiles, absolute }): the files under the
\* directory that carry a markdown extension, in walk order.
globby(patterns, definitionDir) ==
  SelectSeq(WalkOrder,
            LAMBDA f : /\ Len(patterns) > 0
                       /\ IsUnder(definitionDir, f)
                       /\ extname(f) \in {<<".", "m", "d">>, <<".", "m", "d", "x">>,
                                          <<".", "m", "d", "o", "c">>})

\* (await stat(file)).mtimeMs.toString()
HashOf(mtimeMs) == ToString(mtimeMs)

\* The title each content file declares in its metadata block.
TitleOf(file) ==
  IF file = FileTwo THEN "Two" ELSE IF file = FileIntro THEN "Intro" ELSE "Reference"
\* matter(contents).data: the metadata block of a file's current text.
Frontmatter(file, disk) == [title |-> TitleOf(file), rev |-> disk[file].mtime, via |-> "raw"]
\* The schema's transformed result for a metadata block.
Transformed(frontmatter) == [frontmatter EXCEPT !.via = "schema"]
\* schema.safeParseAsync(frontmatter)
safeParseAsync(file, disk) ==
  [success |-> disk[file].ok, data |-> Transformed(Frontmatter(file, disk))]

\* ------------------------------------------------------------ format resolver
\* const mdExtensions = ['.md', '.markdown', '.mdown', '.mkdn', '.mkd', '.mdwn', '.mkdown', '.ron']
mdExtensions ==
  { <<".", "m", "d">>,
    <<".", "m", "a", "r", "k", "d", "o", "w", "n">>,
    <<".", "m", "d", "o", "w", "n">>,
    <<".", "m", "k", "d", "n">>,
    <<".", "m", "k", "d">>,
    <<".", "m", "d", "w", "n">>,
    <<".", "m", "k", "d", "o", "w", "n">>,
    <<".", "r", "o", "n">> }
ExtMdx == <<".", "m", "d", "x">>
ExtMdoc == <<".", "m", "d", "o", "c">>

\* DocumentFormat and DocumentFormatInput
DocumentFormats == {"md", "mdx", "mdoc"}
DocumentFormatInputs == DocumentFormats \cup {"detect"}

\* What a call returns or throws: `file` is the path the thrown Error's message carries.
Returned(value) == [threw |-> FALSE, value |-> value, file |-> <<>>]
Threw(file) == [threw |-> TRUE, value |-> "Unable to detect format for file: ", file |-> file]

\* getFormat with the override read as 'detect' whatever it is.
getFormatDetectOnly(file, format) ==
  LET ext == extname(file) IN
  IF ext \in mdExtensions THEN Returned("md")
  ELSE IF ext = ExtMdx THEN Returned("mdx")
  ELSE IF ext = ExtMdoc THEN Returned("mdoc")
  ELSE Threw(file)

\* getFormat({ file, format })
getFormat(file, format) ==
  IF format = "detect"
  THEN LET ext == extname(file) IN
       IF ext \in mdExtensions THEN Returned("md")
       ELSE IF ext = ExtMdx THEN Returned("mdx")
       ELSE IF ext = ExtMdoc THEN Returned("mdoc")
       ELSE Threw(file)
  ELSE Returned(format)

\* The paths getFormat is called with: a stem and an ending.
Stems == { <<"/", "c", "/", "a">>, <<"/", "c", ".", "d", "/", "a">>, <<"a", ".", "b">> }
Endings ==
  mdExtensions \cup
  { ExtMdx, ExtMdoc, <<>>, <<".">>, <<".", "t", "x", "t">>, <<".", "M", "D">>,
    <<".", "m", "d", "x", "x">>, <<".", "m">>, <<"m", "d">> }

\* ---------------------------------------------------------------- the state
VARIABLES
  mode,         \* GenerationMode of the run
  fs,           \* the content files: the mtime of each, whether its metadata is valid
  store,        \* the persisted cache: path -> {hash, type, document}
  cache,        \* the in-memory cache of each incarnation: items and uniques
  incarnation,  \* how many times getConfig has resolved the configuration
  watcher,      \* the active chokidar watcher: its incarnation and configuration
  pending,      \* file events the watcher has yet to emit
  tasks,        \* the async call chains in flight
  last,         \* the call chain that finished most recently
  edits,        \* how many edits the environment has made
  since,        \* the files changed since the latest successful pass started
  call          \* a call of a pure function: its arguments and, once made, its result

pipeline == <<mode, fs, store, cache, incarnation, watcher, pending, tasks, last, edits, since>>
vars == <<mode, fs, store, cache, incarnation, watcher, pending, tasks, last, edits, since, call>>

MaxGen == MaxEdits + 1
Gens == 1..MaxGen
TaskIds == 1..MaxTasks

\* An object with no property.
EmptyMap == [x \in {} |-> x]
EmptyCache == [items |-> EmptyMap, uniques |-> EmptyMap]
NoWatcher == [gen |-> 0, config |-> NoConfig]
NoBase == [has |-> FALSE, changed |-> {}, solo |-> FALSE, quiet |-> FALSE]

IdleTask ==
  [kind |-> "idle", pc |-> "idle", gen |-> 0, config |-> NoConfig, trigger |-> <<>>,
   ti |-> 0, files |-> <<>>, fi |-> 0, docs |-> <<>>, cached |-> 0, generated |-> 0,
   generations |-> <<>>, wrote |-> <<>>,
   summary |-> [cached |-> 0, generated |-> 0, total |-> 0],
   status |-> "none", error |-> "none", caught |-> FALSE,
   solo |-> TRUE, base |-> NoBase, dirty |-> {}, invalid |-> {}]

\* No pure function is being called.
NoCall == [fn |-> "none", done |-> FALSE]

InPass(r) == r.pc \in {"file", "save"}
Watching == watcher.gen > 0
Alive == Watching \/ \E t \in TaskIds : tasks[t].kind # "idle"

\* The files whose metadata an edit may leave invalid.
Breakable == {FileTwo, FileIntro}
OkChoices(f) == IF f \in Breakable THEN BOOLEAN ELSE {TRUE}

Init ==
  /\ mode \in Modes
  /\ fs \in {d \in [Files -> [mtime : {1}, ok : BOOLEAN]] : \A f \in Files : d[f].ok \in OkChoices(f)}
  /\ store = EmptyMap
  /\ cache = [g \in Gens |-> EmptyCache]
  /\ incarnation = 0
  /\ watcher = NoWatcher
  /\ pending = {}
  /\ tasks = [t \in TaskIds |-> IF t = 1 THEN [IdleTask EXCEPT !.kind = "initial", !.pc = "config"]
                                ELSE IdleTask]
  /\ last = IdleTask
  /\ edits = 0
  /\ since = NoBase
  /\ call = NoCall

\* ------------------------------------------------------------ bookkeeping
Put(map, k, v) == [x \in (DOMAIN map) \cup {k} |-> IF x = k THEN v ELSE map[x]]
Drop(map, keys) == [x \in (DOMAIN map) \ keys |-> map[x]]

\* The lowest free slot for a new call chain, 0 when there is none.
FreeSlot ==
  LET free == {t \in TaskIds : tasks[t].kind = "idle"} IN
  IF free = {} THEN 0 ELSE CHOOSE t \in free : \A u \in free : t <= u

\* A pass starts in slot t: it notes what changed since the latest successful pass.
PassStarted(r, t) ==
  [r EXCEPT !.solo = \A u \in TaskIds \ {t} : ~InPass(tasks[u]),
            !.base = since, !.dirty = {}]
\* The passes already running overlap the one that starts in slot t.
Overlapped(t) ==
  [u \in TaskIds |-> IF u # t /\ InPass(tasks[u]) THEN [tasks[u] EXCEPT !.solo = FALSE]
                     ELSE tasks[u]]
\* A content file changes: every running pass notes it.
Noted(change) ==
  [u \in TaskIds |-> IF InPass(tasks[u]) THEN [tasks[u] EXCEPT !.dirty = @ \cup {change}]
                     ELSE tasks[u]]

\* An incarnation's cache is reachable while a call chain or the watcher holds its config.
Collect(c, ts, w) ==
  [g \in Gens |-> IF w.gen = g \/ \E t \in TaskIds : ts[t].gen = g THEN c[g] ELSE EmptyCache]

\* ------------------------------------------------------ how a call chain ends
\* try { await generateInner(...) } catch (error) { logger.warn(error) }: only the watch
\* handler's own pass is awaited inside the try; `return generate(...)` is not.
Caught(kind) == kind = "watch"

Fail(r, err) ==
  [r EXCEPT !.pc = "end", !.status = "error", !.error = err, !.caught = Caught(r.kind)]
Succeed(r) == [r EXCEPT !.pc = "end", !.status = "ok"]

\* ---------------------------------------------------------- generateDocuments
definitionDirOf(type) == join(contentDirPath, type)
Json == <<".", "j", "s", "o", "n">>
\* join(output.generated, type, `${idToFileName(relative(definitionDir, file))}.json`)
DocumentPath(type, file) ==
  join(join(OutputGenerated, type), idToFileName(relative(definitionDirOf(type), file)) \o Json)
IndexJsonPath(type) == join(join(OutputGenerated, type), <<"i", "n", "d", "e", "x">> \o Json)
IndexMjsPath(type) ==
  join(join(OutputGenerated, type), <<"i", "n", "d", "e", "x", ".", "m", "j", "s">>)

\* makeVariableName(id): the camel-cased form of the id's file name (change-case).
makeVariableName(id) == [camelCase |-> idToFileName(id)]

\* The lines of index.mjs: one import per key of docs, then the exported array.
ImportModule(type, ids) ==
  [imports |-> [i \in 1..Len(ids) |->
                  [name |-> makeVariableName(ids[i]),
                   from |-> idToFileName(relative(definitionDirOf(type), ids[i])) \o Json]],
   exports |-> [i \in 1..Len(ids) |-> makeVariableName(ids[i])]]

\* The patterns check left out.
NoPatternsUnchecked(patterns) == FALSE

\* if (patterns.length === 0) throw new MarkdownlayerError(ConfigNoPatternsError)
NoPatterns(patterns) == Len(patterns) = 0

\* What a pass has written, in order. An entry names the artifact by its kind, type and
\* source file and holds what the text is serialized from: the document, the array of
\* documents, or the keys the lines of the import module are made of.
Written(kind, type, id, data) == [kind |-> kind, type |-> type, id |-> id, data |-> data]
PathOf(w) ==
  IF w.kind = "document" THEN DocumentPath(w.type, w.id)
  ELSE IF w.kind = "index.json" THEN IndexJsonPath(w.type)
  ELSE IndexMjsPath(w.type)

\* After the loop over the files: index.json, index.mjs and the type's counts.
WriteIndex(r) ==
  LET type == r.config.definitions[r.ti].type IN
  [r EXCEPT !.wrote = @ \o << Written("index.json", type, <<>>, ObjValues(r.docs)),
                              Written("index.mjs", type, <<>>, ObjKeys(r.docs)) >>,
            !.generations = Append(@, [type |-> type, cached |-> r.cached,
                                       generated |-> r.generated,
                                       total |-> Len(ObjKeys(r.docs))])]

\* generateInner's loop from definition i on, up to the next stat of a file: the
\* patterns check, globby, and for a type without files its aggregate artifacts.
RECURSIVE EnterType(_, _)
EnterType(r, i) ==
  IF i > Len(r.config.definitions) THEN [r EXCEPT !.pc = "save"]
  ELSE IF NoPatterns(PatternsOf(r.config))
  THEN Fail([r EXCEPT !.ti = i], "ConfigNoPatternsError")
  ELSE LET files == globby(PatternsOf(r.config), definitionDirOf(r.config.definitions[i].type))
           in == [r EXCEPT !.pc = "file", !.ti = i, !.files = files, !.fi = 1, !.docs = <<>>,
                           !.cached = 0, !.generated = 0]
       IN IF Len(files) = 0 THEN EnterType(WriteIndex(in), i + 1) ELSE in

\* generateInner up to its first stat
BeginInner(r) == EnterType(r, 1)

\* for (const file of files): on to the next file, or out of the loop
NextFile(r) ==
  IF r.fi < Len(r.files) THEN [r EXCEPT !.fi = @ + 1]
  ELSE EnterType(WriteIndex(r), r.ti + 1)

\* The slot's call chain becomes r; a chain that ended leaves the slot, and generate()
\* starts the watcher after a successful pass in development mode.
\* The call chains in flight, in the order they started.
Compact(ts) ==
  LET busy == SelectSeq([u \in TaskIds |-> ts[u]], LAMBDA x : x.kind # "idle") IN
  [u \in TaskIds |-> IF u <= Len(busy) THEN busy[u] ELSE IdleTask]

Settle(ts, t, r) ==
  IF r.pc = "end"
  THEN /\ tasks' = Compact([ts EXCEPT ![t] = IdleTask])
       /\ last' = r
       /\ watcher' = IF r.status = "ok" /\ r.kind \in {"initial", "restart"}
                        /\ mode = "development"
                     THEN [gen |-> r.gen, config |-> r.config]
                     ELSE watcher
       /\ since' = IF r.status = "ok"
                   THEN [has |-> TRUE, changed |-> r.dirty, solo |-> r.solo, quiet |-> r.dirty = {}]
                   ELSE since
  ELSE /\ tasks' = [ts EXCEPT ![t] = r]
       /\ UNCHANGED <<last, watcher, since>>

\* ------------------------------------------------------------------ generate
\* The cache of a freshly resolved configuration: loaded from the persisted store.
LoadCache(persisted) == [items |-> persisted, uniques |-> EmptyMap]

\* getConfig resolves the configuration and loads the cache; generate() then runs
\* generateInner.
GetConfig(t) ==
  /\ tasks[t].pc = "config"
  /\ incarnation < MaxGen
  /\ \E cfg \in ConfigChoices :
       LET g == incarnation + 1
           r == BeginInner(PassStarted([tasks[t] EXCEPT !.gen = g, !.config = cfg], t))
       IN /\ incarnation' = g
          /\ Settle(Overlapped(t), t, r)
          /\ cache' = Collect([cache EXCEPT ![g] = LoadCache(store)], tasks', watcher')
  /\ UNCHANGED <<mode, fs, store, pending, edits>>

\* A change test that never trusts the cache, and one that never looks at the hash.
changedAlways(items, file, hash) == TRUE
changedWhenAbsent(items, file, hash) == file \notin DOMAIN items

\* const changed = !cacheEntry || cacheEntry.hash !== hash
changed(items, file, hash) == file \notin DOMAIN items \/ items[file].hash # hash

\* resolveSchema(options): the type's schema, if it declares one.
resolveSchema(def) == def.schema

\* A failed parse that is not thrown.
ValidationSwallowed(schema, parsed) == FALSE

\* if (schema) { ... if (parsed.success) data = parsed.data; else throw ... }
ValidationThrows(schema, parsed) == schema /\ ~parsed.success
\* The metadata block kept as it is, schema or not.
DataOfRaw(schema, parsed, frontmatter) == frontmatter

\* let data = frontmatter; ... if (parsed.success) data = parsed.data
DataOf(schema, parsed, frontmatter) == IF schema THEN parsed.data ELSE frontmatter

\* The schema's unique() helper records the path under the value it has seen.
RegisterUnique(uniques, schema, type, file) ==
  IF schema THEN Put(uniques, <<type, file>>, file) ELSE uniques

\* One turn of `for (const file of files)`; the last turn goes on to the aggregate
\* artifacts and the next definition.
ProcessFile(t) ==
  /\ tasks[t].pc = "file"
  /\ LET r == tasks[t]
         def == r.config.definitions[r.ti]
         type == def.type
         file == r.files[r.fi]
         items == cache[r.gen].items
         hash == HashOf(fs[file].mtime)
         frontmatter == Frontmatter(file, fs)
         schema == resolveSchema(def)
         parsed == safeParseAsync(file, fs)
         data == DataOf(schema, parsed, frontmatter)
         seen == IF schema /\ ~parsed.success THEN {<<type, file>>} ELSE {}
     IN IF ~changed(items, file, hash)
        THEN /\ Settle(tasks, t,
                       NextFile([r EXCEPT !.docs = ObjSet(@, file, items[file].document),
                                          !.cached = @ + 1]))
             /\ cache' = Collect(cache, tasks', watcher')
        ELSE IF ValidationThrows(schema, parsed)
        THEN /\ Settle(tasks, t, Fail([r EXCEPT !.invalid = @ \cup seen],
                                      "InvalidDocumentFrontmatterError"))
             /\ cache' = Collect(cache, tasks', watcher')
        ELSE /\ Settle(tasks, t,
                       NextFile([r EXCEPT
                                   !.wrote = Append(@, Written("document", type, file, data)),
                                   !.docs = ObjSet(@, file, data),
                                   !.generated = @ + 1, !.invalid = @ \cup seen]))
             /\ cache' = Collect([cache EXCEPT ![r.gen] =
                            [items |-> Put(items, file,
                                           [hash |-> hash, type |-> type, document |-> data]),
                             uniques |-> RegisterUnique(@.uniques, schema, type, file)]],
                            tasks', watcher')
  /\ UNCHANGED <<mode, fs, store, incarnation, pending, edits>>

\* Object.values(generations).reduce(...) with no initial value
Reduce(generations) ==
  LET F[i \in 1..Len(generations)] ==
        IF i = 1 THEN [cached |-> generations[1].cached,
                       generated |-> generations[1].generated,
                       total |-> generations[1].total]
        ELSE [cached |-> F[i - 1].cached + generations[i].cached,
              generated |-> F[i - 1].generated + generations[i].generated,
              total |-> F[i - 1].total + generations[i].total]
  IN F[Len(generations)]

\* The end of generateInner with cache.save() left out.
SaveSkipped(t) ==
  /\ tasks[t].pc = "save"
  /\ LET r == tasks[t] IN
       /\ store' = store
       /\ Settle(tasks, t, IF Len(r.generations) = 0
                           THEN Fail(r, "TypeError")
                           ELSE Succeed([r EXCEPT !.summary = Reduce(r.generations)]))
  /\ cache' = Collect(cache, tasks', watcher')
  /\ UNCHANGED <<mode, fs, incarnation, pending, edits>>

\* outputAssets, cache.save(), the stats; generate() then starts the watcher.
Save(t) ==
  /\ tasks[t].pc = "save"
  /\ LET r == tasks[t] IN
       /\ store' = cache[r.gen].items
       /\ Settle(tasks, t, IF Len(r.generations) = 0
                           THEN Fail(r, "TypeError")
                           ELSE Succeed([r EXCEPT !.summary = Reduce(r.generations)]))
  /\ cache' = Collect(cache, tasks', watcher')
  /\ UNCHANGED <<mode, fs, incarnation, pending, edits>>

\* ----------------------------------------------------------- the environment
\* chokidar reports paths relative to its cwd, the content directory; <<>> is no filename.
EventFor(name, path) == [eventName |-> name, filename |-> <<relative(contentDirPath, path)>>]
\* An event reaches the watcher only while one is open.
Emit(ev) == IF Watching THEN pending \cup {ev} ELSE pending
Bump(change) ==
  IF since.has THEN [since EXCEPT !.changed = @ \cup {change}] ELSE since

\* An editor saves a content file: a new mtime, metadata that is valid or not.
EditFile(f) ==
  /\ Alive /\ edits < MaxEdits
  /\ \E ok \in OkChoices(f) : fs' = [fs EXCEPT ![f] = [mtime |-> @.mtime + 1, ok |-> ok]]
  /\ pending' = Emit(EventFor("change", f))
  /\ tasks' = Noted(f)
  /\ since' = Bump(f)
  /\ edits' = edits + 1
  /\ UNCHANGED <<mode, store, cache, incarnation, watcher, last>>

\* The configuration file is saved.
EditConfig ==
  /\ Watching /\ edits < MaxEdits
  /\ pending' = Emit(EventFor("change", ConfigFile))
  /\ edits' = edits + 1
  /\ UNCHANGED <<mode, fs, store, cache, incarnation, watcher, tasks, last, since>>

\* A directory appears or goes, or the watcher reports an event without a filename.
OtherEvents ==
  { [eventName |-> "addDir", filename |-> << <<"d", "/", "x">> >>],
    [eventName |-> "unlinkDir", filename |-> << <<"d", "/", "x">> >>],
    [eventName |-> "change", filename |-> <<>>] }
OtherEvent ==
  /\ Watching /\ edits < MaxEdits
  /\ \E ev \in OtherEvents : pending' = Emit(ev)
  /\ edits' = edits + 1
  /\ UNCHANGED <<mode, fs, store, cache, incarnation, watcher, tasks, last, since>>

\* ------------------------------------------------- watcher.on('all', handler)
\* The filter without its check of the event name.
IgnoredWithoutFilename(ev) == ev.filename = <<>>

\* if (eventName === 'addDir' || eventName === 'unlinkDir') return; if (filename == null) return
Ignored(ev) == ev.eventName \in {"addDir", "unlinkDir"} \/ ev.filename = <<>>
\* filename = join(contentDirPath, filename)
Resolved(ev) == join(contentDirPath, ev.filename[1])
\* A restart on every file event.
IsConfigChangeAlways(filename) == TRUE

\* configImports.includes(filename)
IsConfigChange(filename) == \E i \in 1..Len(configImports) : configImports[i] = filename
\* for (const [key, value] of Object.entries(config.cache.uniques))
\*   if (value === filename) delete config.cache.uniques[key]
RemoveChangedFileCache(c, filename) ==
  [c EXCEPT !.uniques = Drop(@, {k \in DOMAIN @ : @[k] = filename})]

IgnoreEvent(ev) ==
  /\ Watching /\ ev \in pending
  /\ Ignored(ev)
  /\ pending' = pending \ {ev}
  /\ UNCHANGED <<mode, fs, store, cache, incarnation, watcher, tasks, last, edits, since>>

\* watcher.close(); return generate({ mode, configPath })
RestartOnConfigChange(ev) ==
  /\ Watching /\ ev \in pending
  /\ ~Ignored(ev)
  /\ FreeSlot # 0
  /\ IsConfigChange(Resolved(ev))
  /\ watcher' = NoWatcher
  /\ pending' = {}
  /\ tasks' = [tasks EXCEPT ![FreeSlot] =
                 [IdleTask EXCEPT !.kind = "restart", !.pc = "config", !.trigger = Resolved(ev)]]
  /\ cache' = Collect([cache EXCEPT ![watcher.gen] = RemoveChangedFileCache(@, Resolved(ev))],
                      tasks', watcher')
  /\ UNCHANGED <<mode, fs, store, incarnation, last, edits, since>>

\* await generateInner(...) inside the try
Regenerate(ev) ==
  /\ Watching /\ ev \in pending
  /\ ~Ignored(ev)
  /\ FreeSlot # 0
  /\ ~IsConfigChange(Resolved(ev))
  /\ LET t == FreeSlot
         r == [IdleTask EXCEPT !.kind = "watch", !.gen = watcher.gen,
                               !.config = watcher.config, !.trigger = Resolved(ev)]
     IN Settle(Overlapped(t), t, BeginInner(PassStarted(r, t)))
  /\ pending' = pending \ {ev}
  /\ cache' = Collect([cache EXCEPT ![watcher.gen] = RemoveChangedFileCache(@, Resolved(ev))],
                      tasks', watcher')
  /\ UNCHANGED <<mode, fs, store, incarnation, edits>>

\* ------------------------------------------------------------ specification
Next ==
  \/ \E t \in TaskIds : GetConfig(t) /\ UNCHANGED call
  \/ \E t \in TaskIds : ProcessFile(t) /\ UNCHANGED call
  \/ \E t \in TaskIds : Save(t) /\ UNCHANGED call
  \/ \E f \in Files : EditFile(f) /\ UNCHANGED call
  \/ EditConfig /\ UNCHANGED call
  \/ OtherEvent /\ UNCHANGED call
  \/ \E ev \in pending : IgnoreEvent(ev) /\ UNCHANGED call
  \/ \E ev \in pending : RestartOnConfigChange(ev) /\ UNCHANGED call
  \/ \E ev \in pending : Regenerate(ev) /\ UNCHANGED call

Spec == Init /\ [][Next]_vars

\* ---------------------------------------------------- calls of pure functions
\* getFormat is called with a path and a format input.
FormatInit ==
  /\ mode = "production"
  /\ fs = [f \in Files |-> [mtime |-> 1, ok |-> TRUE]]
  /\ store = EmptyMap
  /\ cache = [g \in Gens |-> EmptyCache]
  /\ incarnation = 0
  /\ watcher = NoWatcher
  /\ pending = {}
  /\ tasks = [t \in TaskIds |-> IdleTask]
  /\ last = IdleTask
  /\ edits = 0
  /\ since = NoBase
  /\ call \in [fn : {"getFormat"}, done : {FALSE}, stem : Stems, ending : Endings,
               format : DocumentFormatInputs]

GetFormat ==
  /\ call.fn = "getFormat" /\ ~call.done
  /\ call' = [fn |-> "getFormat", done |-> TRUE, stem |-> call.stem, ending |-> call.ending,
              format |-> call.format, file |-> call.stem \o call.ending,
              result |-> getFormat(call.stem \o call.ending, call.format)]
  /\ UNCHANGED pipeline

FormatNext == GetFormat
FormatSpec == FormatInit /\ [][FormatNext]_vars

\* Two files of one type are written: the relative paths globby can report, built from
\* a small alphabet, with the extension .md.
Alphabet == {"a", "_", Slash}
Discoverable(id) ==
  /\ id[1] \notin {Slash, "_"} /\ id[Len(id)] # Slash
  /\ \A i \in 1..(Len(id) - 1) : id[i] = Slash => id[i + 1] \notin {Slash, "_"}
RelativeIds ==
  {id \o <<".", "m", "d">> :
     id \in {x \in UNION {[1..n -> Alphabet] : n \in 1..MaxLen} : Discoverable(x)}}

NameInit ==
  /\ mode = "production"
  /\ fs = [f \in Files |-> [mtime |-> 1, ok |-> TRUE]]
  /\ store = EmptyMap
  /\ cache = [g \in Gens |-> EmptyCache]
  /\ incarnation = 0
  /\ watcher = NoWatcher
  /\ pending = {}
  /\ tasks = [t \in TaskIds |-> IdleTask]
  /\ last = IdleTask
  /\ edits = 0
  /\ since = NoBase
  /\ call \in {c \in [fn : {"idToFileName"}, done : {FALSE}, type : {TypeDocs},
                      ids : RelativeIds \X RelativeIds] : c.ids[1] # c.ids[2]}

\* The per-document artifact of each of the two files is written.
WriteDocuments ==
  /\ call.fn = "idToFileName" /\ ~call.done
  /\ call' = [fn |-> "idToFileName", done |-> TRUE, type |-> call.type, ids |-> call.ids,
              paths |-> [i \in 1..2 |->
                           DocumentPath(call.type, join(definitionDirOf(call.type), call.ids[i]))]]
  /\ UNCHANGED pipeline

NameNext == WriteDocuments
NameSpec == NameInit /\ [][NameNext]_vars

\* ------------------------------------------------------------------ claims
\* The call chains in flight and the one that ended last.
Chains == {tasks[t] : t \in TaskIds} \cup {last}
\* The source files whose per-document artifact a chain has written.
Regenerated(r) == {r.wrote[i].id : i \in {j \in 1..Len(r.wrote) : r.wrote[j].kind = "document"}}
\* The chain that ended last was a successful pass that ran alone, after a successful
\* pass that ran alone, and no file changed while it ran.
SecondPass ==
  /\ last.status = "ok" /\ last.solo /\ last.dirty = {}
  /\ last.base.has /\ last.base.solo

\* C1. Idempotence under no change: a pass that completes after a completed pass, with
\* no file's mtime changed since that first pass started, reports generated = 0 and
\* cached = total for every document type.
C1_Idempotence ==
  (SecondPass /\ last.base.changed = {}) =>
    \A i \in 1..Len(last.generations) :
      last.generations[i].generated = 0 /\ last.generations[i].cached = last.generations[i].total

C1_Witness ==
  /\ SecondPass /\ last.base.changed = {}
  /\ last.kind = "watch"
  /\ last.summary.total > 0 /\ last.summary.generated = 0

\* C2. Precise invalidation: a pass that completes after a completed pass, with exactly
\* one file modified between them (none during the first), reports generated = 1 and cached = N - 1 over its N
\* files, and the document it recomputed is the modified file's.
C2_PreciseInvalidation ==
  (SecondPass /\ last.base.quiet /\ Cardinality(last.base.changed) = 1) =>
    /\ last.summary.generated = 1
    /\ last.summary.cached = last.summary.total - 1
    /\ Regenerated(last) = last.base.changed

C2_Witness ==
  /\ SecondPass /\ last.base.quiet /\ last.base.changed = {FileIntro}
  /\ last.summary.generated = 1 /\ last.summary.total > 1

\* C3. Single-flight: at most one generation pass is in flight at any time.
C3_SingleFlight == Cardinality({t \in TaskIds : InPass(tasks[t])}) <= 1

\* C4. Watch-loop survival: an error raised by a regeneration that a watch event
\* triggered (a content-file event or a configuration event) is caught in the handler,
\* and a watcher is active afterwards or a restart is on its way to open one.
C4_WatchLoopSurvives ==
  (last.status = "error" /\ last.kind \in {"watch", "restart"}) =>
    /\ last.caught
    /\ Watching \/ \E t \in TaskIds : tasks[t].kind = "restart"

\* The index files a chain wrote list their type's documents in discovery order.
InDiscoveryOrder(r) ==
  \A i \in 1..Len(r.wrote) :
    LET w == r.wrote[i]
        found == globby(PatternsOf(r.config), definitionDirOf(w.type))
    IN /\ w.kind = "index.json" =>
            [k \in 1..Len(w.data) |-> w.data[k].title] = [k \in 1..Len(found) |-> TitleOf(found[k])]
       /\ w.kind = "index.mjs" =>
            LET m == ImportModule(w.type, w.data) IN
            /\ m.exports = [k \in 1..Len(found) |-> makeVariableName(found[k])]
            /\ [k \in 1..Len(m.imports) |-> m.imports[k].name] = m.exports

\* C5. Collection ordering: whenever a pass completes, the elements of each type's
\* index.json and the imports and the exported array of its index.mjs are in
\* file-discovery order, whichever files were cache hits and whichever misses.
C5_CollectionOrder ==
  [][(last' # last /\ last'.status = "ok") => InDiscoveryOrder(last')]_vars

\* A completed pass in which one type had a miss after a hit.
C5_Witness ==
  /\ last.status = "ok"
  /\ \E i \in 1..Len(last.generations) :
       /\ last.generations[i].cached > 0 /\ last.generations[i].generated > 0
       /\ last.generations[i].total > 2
  /\ FileTwo \notin Regenerated(last) /\ FileIntro \in Regenerated(last)

\* C6. Fatal validation halts output: a pass in which a document of a type fails schema
\* validation writes neither that type's index.json nor its index.mjs.
C6_FatalValidationHaltsOutput ==
  \A r \in Chains : \A p \in r.invalid : \A i \in 1..Len(r.wrote) :
    r.wrote[i].type = p[1] => r.wrote[i].kind = "document"

\* A pass that failed validation in one type after it wrote another type's index.
C6_Witness ==
  /\ last.error = "InvalidDocumentFrontmatterError"
  /\ last.invalid # {}
  /\ \E i \in 1..Len(last.wrote) : last.wrote[i].kind = "index.json"

\* C7. No partial output on validation failure: a pass in which a document fails
\* validation has written no artifact (and so updated no cache entry).
C7_NoPartialOutput ==
  \A r \in Chains : r.invalid # {} => r.wrote = <<>>

\* C8. Config-change restart: the watcher is closed by the handler of a configuration
\* file event and by nothing else; that handler starts a restart, whose pass runs under
\* a new incarnation with a configuration getConfig resolved and a cache that holds the
\* persisted store.
ConfigEvent(ev) == ~Ignored(ev) /\ Resolved(ev) = ConfigFile
RestartFor(ts, filename) ==
  \E t \in TaskIds : ts[t].kind = "restart" /\ ts[t].pc = "config" /\ ts[t].trigger = filename
C8_ConfigChangeRestart ==
  [][ /\ (Watching /\ ~Watching') =>
           /\ \E ev \in pending : ConfigEvent(ev)
           /\ RestartFor(tasks', ConfigFile) /\ ~RestartFor(tasks, ConfigFile)
      /\ \A ev \in pending : (ConfigEvent(ev) /\ ev \notin pending') =>
           ~Watching' /\ RestartFor(tasks', ConfigFile)
      /\ \A t \in TaskIds :
           (tasks[t].kind = "restart" /\ tasks[t].pc = "config" /\ InPass(tasks'[t])) =>
             /\ tasks'[t].gen = incarnation + 1 /\ incarnation' = incarnation + 1
             /\ tasks'[t].config \in ConfigChoices
             /\ cache'[tasks'[t].gen] = [items |-> store, uniques |-> EmptyMap]
    ]_vars

\* A restarted pass about to stat its first file, its cache the persisted store, while
\* a handler of the incarnation before still works on an in-memory cache that differs.
C8_Witness ==
  \E t, u \in TaskIds :
    /\ tasks[t].kind = "restart" /\ tasks[t].pc = "file"
    /\ tasks[t].ti = 1 /\ tasks[t].fi = 1 /\ tasks[t].wrote = <<>>
    /\ cache[tasks[t].gen].items = store
    /\ tasks[u].kind = "watch" /\ tasks[u].gen # tasks[t].gen
    /\ cache[tasks[u].gen].items # store

\* C9. Watch invalidation by path: a pass that the event of a content file p triggered,
\* and that ran alone, recomputes p.
C9_InvalidationByPath ==
  (last.status = "ok" /\ last.kind = "watch" /\ last.solo /\ last.trigger \in Files) =>
    last.trigger \in Regenerated(last)

\* C10. Empty patterns are fatal: a pass under a configuration whose patterns list is
\* empty ends at once with the configuration error; it has enumerated no file, written
\* no artifact and counted no document, and generate() opens no watcher on it.
EmptyPatterns(config) == config.patterns.set /\ config.patterns.globs = <<>>
C10_EmptyPatternsFatal ==
  \A r \in Chains : (r.kind # "idle" /\ r.pc # "config" /\ EmptyPatterns(r.config)) =>
    /\ r.pc = "end" /\ r.status = "error" /\ r.error = "ConfigNoPatternsError"
    /\ r.files = <<>> /\ r.wrote = <<>> /\ r.generations = <<>>
    /\ r.cached = 0 /\ r.generated = 0
    /\ watcher.gen # r.gen

C10_Witness ==
  /\ last.error = "ConfigNoPatternsError"
  /\ last.kind = "restart"
  /\ EmptyPatterns(last.config)

\* C11. Format resolution: getFormat returns an explicit override (md, mdx, mdoc)
\* unchanged; under 'detect' it returns md for a path that ends in a plain-markdown
\* extension, mdx for .mdx, mdoc for .mdoc, and for any other path throws an error whose
\* message carries the path.
EndsInExtension(c) ==
  /\ c.ending # <<>> /\ c.ending[1] = "." /\ Len(c.ending) > 1
  /\ \A i \in 2..Len(c.ending) : c.ending[i] # "."
C11_FormatResolution ==
  (call.fn = "getFormat" /\ call.done) =>
    IF call.format \in DocumentFormats THEN call.result = Returned(call.format)
    ELSE IF EndsInExtension(call) /\ call.ending \in mdExtensions THEN call.result = Returned("md")
    ELSE IF EndsInExtension(call) /\ call.ending = ExtMdx THEN call.result = Returned("mdx")
    ELSE IF EndsInExtension(call) /\ call.ending = ExtMdoc THEN call.result = Returned("mdoc")
    ELSE call.result.threw /\ call.result.file = call.file

\* Detection failed for a path whose extension is no known one.
C11_Witness ==
  /\ call.fn = "getFormat" /\ call.done
  /\ call.format = "detect" /\ call.ending = <<".", "M", "D">>
  /\ call.result.threw /\ call.result.file = call.stem \o call.ending

\* C12. Validation precedence: a step that processes a file under a type whose schema
\* is resolved and accepts the metadata writes the schema's transformed result, not the
\* raw metadata block, to the per-document artifact, to the cache entry and to the
\* collection (the docs object, and index.json when the step goes on to write it); under
\* a type without schema it writes the raw block.
Processed(t) ==
  /\ tasks[t].pc = "file" /\ InPass(tasks'[t])
  /\ \A u \in TaskIds \ {t} : tasks'[u] = tasks[u]
  /\ Len(tasks'[t].wrote) > Len(tasks[t].wrote)
  /\ tasks'[t].wrote[Len(tasks[t].wrote) + 1].kind = "document"
InCollection(r, n, type, file, data) ==
  IF Len(r.wrote) > n
  THEN /\ r.wrote[n + 1] = Written("index.json", type, <<>>, r.wrote[n + 1].data)
       /\ r.wrote[n + 2].kind = "index.mjs"
       /\ \E k \in 1..Len(r.wrote[n + 2].data) :
            r.wrote[n + 2].data[k] = file /\ r.wrote[n + 1].data[k] = data
  ELSE \E k \in 1..Len(r.docs) : r.docs[k] = <<file, data>>
C12_ValidationPrecedence ==
  [][\A t \in TaskIds : Processed(t) =>
       LET r == tasks[t]
           n == Len(r.wrote) + 1
           w == tasks'[t].wrote[n]
           def == r.config.definitions[r.ti]
           raw == Frontmatter(w.id, fs)
           expected == IF def.schema THEN Transformed(raw) ELSE raw
       IN /\ w.type = def.type /\ w.id = r.files[r.fi]
          /\ def.schema => (fs[w.id].ok /\ expected # raw)
          /\ w.data = expected
          /\ cache'[r.gen].items[w.id].document = expected
          /\ InCollection(tasks'[t], n, def.type, w.id, expected)
    ]_vars

\* A pass has just written a schema-validated document, the last of its type, and the
\* type's index.json with it.
C12_Witness ==
  \E t \in TaskIds :
    /\ InPass(tasks[t])
    /\ \E n \in 1..Len(tasks[t].wrote) :
         LET w == tasks[t].wrote[n] IN
         /\ w.kind = "document" /\ w.type = TypeDocs /\ w.data.via = "schema"
         /\ Len(tasks[t].wrote) > n /\ tasks[t].wrote[n + 1].kind = "index.json"
         /\ cache[tasks[t].gen].items[w.id].document = w.data

\* C13. Cache persistence: every pass that completes, initial, restarted or triggered by
\* a watch event, has persisted the in-memory cache of its incarnation in its last step,
\* after all its document types were processed; and the persisted store changes in no
\* other step than the last step of a pass whose types have all been processed.
AllTypesProcessed(r) == Len(r.generations) = Len(r.config.definitions)
C13_CachePersistence ==
  [][ /\ (last' # last /\ last'.status = "ok") =>
           /\ last'.kind \in {"initial", "restart", "watch"}
           /\ AllTypesProcessed(last')
           /\ store' = cache[last'.gen].items
      /\ store' # store =>
           \E t \in TaskIds :
             /\ tasks[t].pc = "save" /\ AllTypesProcessed(tasks[t])
             /\ store' = cache[tasks[t].gen].items
    ]_vars

\* A pass triggered by a watch event has completed and the store holds what it recomputed.
C13_Witness ==
  /\ last.status = "ok" /\ last.kind = "watch" /\ last.generated > 0
  /\ \E f \in Regenerated(last) :
       f \in DOMAIN store /\ store[f].hash = HashOf(fs[f].mtime) /\ fs[f].mtime > 1

\* C14. Event filtering: the step that handles a directory-add or directory-remove
\* event, or an event without filename, changes nothing but the watcher's queue: no
\* cache entry (items or uniques) is removed, no pass and no restart starts, the watcher
\* stays open.
Filtered(ev) == ev.eventName \in {"addDir", "unlinkDir"} \/ ev.filename = <<>>
C14_EventFiltering ==
  [][\A ev \in pending : (Filtered(ev) /\ pending' = pending \ {ev}) =>
       UNCHANGED <<mode, fs, store, cache, incarnation, watcher, tasks, last, since>>
    ]_vars

\* The one event the watcher has reported was a filtered one and has been handled: the
\* initial pass is still the latest, the watcher is open and nothing is in flight.
C14_Witness ==
  /\ edits = 1 /\ pending = {} /\ since.has /\ since.changed = {}
  /\ Watching /\ watcher.gen = 1 /\ incarnation = 1
  /\ last.kind = "initial" /\ last.status = "ok"
  /\ \A t \in TaskIds : tasks[t].kind = "idle"
  /\ cache[1].items = store /\ store # EmptyMap

\* C15. Restart ordering: while a restart that a configuration change triggered is
\* resolving the new configuration or running its pass, no pass that a watch event of
\* the incarnation before started is still running.
C15_RestartOrdering ==
  \A t, u \in TaskIds :
    tasks[t].kind = "restart" => ~(tasks[u].kind = "watch" /\ InPass(tasks[u]))

\* C16. Aggregate summary: a pass that has processed every declared type, also when
\* none is declared, completes without error; each type's counts satisfy
\* cached + generated = total = number of files discovered, and the aggregate counts are
\* the sums of the per-type counts.
SumOf(counts) ==
  LET F[i \in 0..Len(counts)] == IF i = 0 THEN 0 ELSE F[i - 1] + counts[i]
  IN F[Len(counts)]
C16_AggregateSummary ==
  (last.pc = "end" /\ AllTypesProcessed(last)) =>
    /\ last.status = "ok"
    /\ \A i \in 1..Len(last.generations) :
         LET n == last.generations[i] IN
         /\ n.cached + n.generated = n.total
         /\ n.total = Len(globby(PatternsOf(last.config), definitionDirOf(n.type)))
    /\ last.summary.cached = SumOf([i \in 1..Len(last.generations) |-> last.generations[i].cached])
    /\ last.summary.generated = SumOf([i \in 1..Len(last.generations) |-> last.generations[i].generated])
    /\ last.summary.total = SumOf([i \in 1..Len(last.generations) |-> last.generations[i].total])

\* C17. Cache hit is a pure reuse: a step of a pass at a file whose cache entry holds the
\* file's current fingerprint writes no artifact for the document, leaves the cache (the
\* entry, the other entries and the uniques) as it is, raises nothing, counts the file as
\* cached and puts the cached document unmodified in the collection.
AtHit(t) ==
  LET r == tasks[t]
      file == r.files[r.fi]
      items == cache[r.gen].items
  IN /\ file \in DOMAIN items
     /\ items[file].hash = ToString(fs[file].mtime)
\* The call chain in slot t, and no other, has taken a step.
Stepped(t) ==
  /\ <<tasks'[t].pc, tasks'[t].ti, tasks'[t].fi>> # <<tasks[t].pc, tasks[t].ti, tasks[t].fi>>
  /\ \A u \in TaskIds \ {t} : tasks'[u] = tasks[u]
C17_CacheHitPureReuse ==
  [][\A t \in TaskIds :
       (tasks[t].pc = "file" /\ AtHit(t) /\ Stepped(t)) =>
         LET r == tasks[t]
             file == r.files[r.fi]
             n == Len(r.wrote)
         IN /\ InPass(tasks'[t])
            /\ \A i \in (n + 1)..Len(tasks'[t].wrote) : tasks'[t].wrote[i].kind # "document"
            /\ cache'[r.gen] = cache[r.gen]
            /\ store' = store
            /\ tasks'[t].invalid = r.invalid
            /\ InCollection(tasks'[t], n, r.config.definitions[r.ti].type, file,
                            cache[r.gen].items[file].document)
            /\ IF Len(tasks'[t].wrote) > n
               THEN tasks'[t].generations[Len(r.generations) + 1].cached = r.cached + 1
               ELSE tasks'[t].cached = r.cached + 1 /\ tasks'[t].generated = r.generated
    ]_vars

\* A pass has taken the first file of a type from the cache: the collection holds the
\* cached document and the pass has written no artifact for the file.
C17_Witness ==
  \E t \in TaskIds :
    /\ tasks[t].pc = "file" /\ tasks[t].cached > 0 /\ tasks[t].fi > 1
    /\ tasks[t].files[1] \notin Regenerated(tasks[t])
    /\ tasks[t].docs[1] = <<tasks[t].files[1], cache[tasks[t].gen].items[tasks[t].files[1]].document>>

\* C18. Cache entries do not cross types: every element of a type's index.json is a
\* document produced under that type: the schema's result when the type declares a
\* schema, the raw metadata block when it declares none; also for a file that a nested
\* type has discovered and cached before.
ProducedUnder(r, type, doc) ==
  \E i \in 1..Len(r.config.definitions) :
    /\ r.config.definitions[i].type = type
    /\ doc.via = IF r.config.definitions[i].schema THEN "schema" ELSE "raw"
C18_NoCrossTypeReuse ==
  \A r \in Chains : \A i \in 1..Len(r.wrote) :
    r.wrote[i].kind = "index.json" =>
      \A k \in 1..Len(r.wrote[i].data) : ProducedUnder(r, r.wrote[i].type, r.wrote[i].data[k])

\* C19. Failed file is retried: the step in which a file fails validation leaves the
\* cache and the store as they were, and no cache (in memory or persisted) ever holds an
\* entry with the current fingerprint of a file whose metadata its schema rejects: the
\* file is a miss in every later pass and is validated again.
StaleOrAbsent(items, f) == f \in DOMAIN items => items[f].hash # ToString(fs[f].mtime)
NeverCachedInvalid ==
  \A f \in Files : ~fs[f].ok =>
    /\ StaleOrAbsent(store, f)
    /\ \A g \in Gens : StaleOrAbsent(cache[g].items, f)
C19_FailedFileRetried ==
  [][ /\ NeverCachedInvalid'
      /\ (last' # last /\ last'.error = "InvalidDocumentFrontmatterError") =>
           /\ store' = store
           /\ cache'[last'.gen] \in {cache[last'.gen], EmptyCache}
           /\ \A p \in last'.invalid : ~fs[p[2]].ok
    ]_vars

\* A pass that a watch event triggered has failed at a file whose entry in the cache
\* still holds the hash of the version before.
C19_Witness ==
  /\ last.error = "InvalidDocumentFrontmatterError" /\ last.kind = "watch"
  /\ Watching /\ watcher.gen = last.gen
  /\ \E p \in last.invalid :
       /\ ~fs[p[2]].ok
       /\ p[2] \in DOMAIN cache[last.gen].items
       /\ cache[last.gen].items[p[2]].hash # ToString(fs[p[2]].mtime)
       /\ cache[last.gen].items[p[2]].document.rev < fs[p[2]].mtime

\* C20. Per-document artifact names are injective: two files of one type with different
\* relative paths are written to different per-document artifact files.
C20_ArtifactNamesInjective ==
  (call.fn = "idToFileName" /\ call.done) => call.paths[1] # call.paths[2]

====
